---- MODULE Spec2Model ----
(***************************************************************************)
(* Model of src/src/index.ts (pdfnoodle-mcp): the upstream call helper     *)
(* callApi, the completion tracker pollForPdfCompletion, the five tool     *)
(* handlers registered by createMcpServer, and the session registry        *)
(* `transports` with the POST/GET/DELETE handlers of the /mcp endpoint.    *)
(*                                                                         *)
(* Spec    : one tool invocation, from the call of the handler to its      *)
(*           return, with the upstream API as the environment.             *)
(* RegSpec : the session registry under any interleaving of requests,      *)
(*           handshakes and channel closes.                                *)
(***************************************************************************)
EXTENDS Integers, Sequences, FiniteSets, TLC

VARIABLES
    \* ---- one tool invocation ----
    pc,                 \* position of the handler: idle, submit, wait, query, done
    tool,               \* name of the invoked tool
    waitArg,            \* the waitForCompletion argument as the caller passed it
    waitForCompletion,  \* the handler's parameter, after its default
    fileType,           \* "PNG" or "PDF" (convertToImage ? "PNG" : "PDF")
    payload,            \* keys of the body sent with the first upstream call
    requestId,          \* requestId the tracker polls for
    attempt,            \* loop variable of pollForPdfCompletion
    delay,              \* local `delay` of pollForPdfCompletion
    calls,              \* upstream calls issued by this invocation
    statusCalls,        \* calls of pdf/status/{requestId} issued by the tracker
    waits,              \* setTimeout waits performed by the tracker
    totalWait,          \* sum of the delays waited
    nOngoing,           \* ONGOING answers received by the tracker
    submitStatus,       \* HTTP status the upstream answered the first call with (0: none)
    submitReturned,     \* callApi returned {status, data} for the first call
    lastStatus,         \* renderStatus of the last answer the tracker read
    malformed,          \* the JSON-string parameters supplied with a malformed string
    lastAnswer,         \* what the upstream answered the last call with
    answers,            \* upstream calls that have been answered
    caller,             \* channel whose request started the invocation (0: none)
    ended,              \* none, returned (a value), threw (an error escaped)
    result,             \* the value returned by the handler
    \* ---- session registry ----
    transports,         \* the map sessionId -> channel
    chans,              \* every StreamableHTTPServerTransport created so far
    uuidCount,          \* number of randomUUID() calls so far
    last,               \* the event handled by the last step
    resp,               \* what the last request was answered with
    \* ---- concurrent invocations ----
    trackers            \* the locals of every pollForPdfCompletion call started so far

toolVars == <<pc, tool, waitArg, waitForCompletion, fileType, payload, requestId, attempt,
              delay, calls, statusCalls, waits, totalWait, nOngoing, submitStatus,
              submitReturned, lastStatus, malformed, lastAnswer, answers, caller,
              ended, result>>
regVars == <<transports, chans, uuidCount, last, resp>>
vars == <<toolVars, regVars, trackers>>

----------------------------------------------------------------------------
(* Bounds of the model *)

\* longest JSON-string parameter tried
MaxLen == 2
\* most sessions (channels) created in one run of the registry
MaxSessions == 3
\* most sessions created in a run that also holds a tool invocation
MaxCallerSessions == 1
\* most invocations that track a job at the same time, and most sessions
\* they come from
MaxTrackers == 2

----------------------------------------------------------------------------
(* Values *)

Min(a, b) == IF a <= b THEN a ELSE b

\* characters the JSON-string parameters are built from
Alphabet == {"[", "]", "1", ","}
Strings == UNION {[1..n -> Alphabet] : n \in 0..MaxLen}

\* an optional string parameter (z.string().optional())
OptStrings == {[present |-> FALSE, str |-> <<>>]} \cup
              {[present |-> TRUE, str |-> s] : s \in Strings}
\* an optional boolean parameter (z.boolean().optional())
OptBools == {"undefined", "true", "false"}

RequestIds == {"r1", "r2"}
Statuses == {200, 201, 202, 204, 301, 400, 404, 500}
RenderStatuses == {"ONGOING", "SUCCESS", "FAILED"}
ErrorTexts == {"", "quota exceeded"}
Urls == {"https://x/y.pdf"}

Tools == {"list_templates", "get_template_variables", "check_pdf_status",
          "html_to_pdf", "generate_pdf"}


----------------------------------------------------------------------------
(* Errors and results *)

\* an Error object; `type` stands for the fixed words of its message and the
\* other fields for the values interpolated into it
NoError == [type |-> "none", status |-> 0, text |-> "", param |-> "",
            requestId |-> "", attempts |-> 0]

\* fetch() rejected: no response at all
NetworkError == [NoError EXCEPT !.type = "fetch failed"]
\* `PDFNoodle API Error (${response.status}): ${errorText}`
ApiError(status, text) ==
    [NoError EXCEPT !.type = "PDFNoodle API Error", !.status = status, !.text = text]
\* response.json() rejected: the body is not JSON
BodyError == [NoError EXCEPT !.type = "invalid response body"]
\* "Invalid JSON provided for '<param>' parameter"
InvalidJsonError(param) ==
    [NoError EXCEPT !.type = "Invalid JSON provided for parameter", !.param = param]
\* `PDF generation failed for request ${requestId}`
RenderFailedError(rid) ==
    [NoError EXCEPT !.type = "PDF generation failed", !.requestId = rid]
\* a timed-out message without the job id
TimedOutError_NoRequest(n, rid) ==
    [NoError EXCEPT !.type = "PDF generation timed out", !.attempts = n]

\* `PDF generation timed out after ${maxAttempts} attempts for request ${requestId}`
TimedOutError(n, rid) ==
    [NoError EXCEPT !.type = "PDF generation timed out", !.attempts = n,
                    !.requestId = rid]
\* `Unexpected response status: ${status}`
UnexpectedStatusError(status) ==
    [NoError EXCEPT !.type = "Unexpected response status", !.status = status]

\* the outcome of a piece of code: a value, or a thrown error
Return(v) == [thrown |-> FALSE, err |-> NoError, val |-> v]
Throw(e) == [thrown |-> TRUE, err |-> e, val |-> 0]

\* a tool result: {content: [{type: "text", text}], isError?}; `prefix` and
\* `kind` stand for the fixed words of the text, the rest for interpolated values
NoResult == [isError |-> FALSE, prefix |-> "", kind |-> "none", status |-> 0,
             text |-> "", param |-> "", requestId |-> "", attempts |-> 0,
             fileType |-> "", url |-> ""]

ErrorPrefix(t) ==
    CASE t = "list_templates" -> "Error fetching templates: "
      [] t = "get_template_variables" -> "Error fetching template variables: "
      [] t = "check_pdf_status" -> "Error checking PDF status: "
      [] t = "html_to_pdf" -> "Error converting HTML to PDF: "
      [] t = "generate_pdf" -> "Error generating PDF: "

\* the catch block of every handler: the error's message behind the tool's prefix
ErrorResult(t, e) ==
    [NoResult EXCEPT !.isError = TRUE, !.prefix = ErrorPrefix(t), !.kind = e.type,
                     !.status = e.status, !.text = e.text, !.param = e.param,
                     !.requestId = e.requestId, !.attempts = e.attempts]

\* the handler without its catch block: the error leaves the handler
HandlerEnd_NoCatch(t, c) ==
    IF c.thrown THEN [ended |-> "threw", result |-> NoResult]
    ELSE [ended |-> "returned", result |-> c.val]

\* try { ... } catch (err) { return {content: ..., isError: true} }
HandlerEnd(t, c) ==
    IF c.thrown THEN [ended |-> "returned", result |-> ErrorResult(t, c.err)]
    ELSE [ended |-> "returned", result |-> c.val]

----------------------------------------------------------------------------
(* JSON.parse on the strings over Alphabet: a value is a number (a run of   *)
(* the digit 1) or an array of values.                                      *)

RECURSIVE SkipDigits(_, _)
\* the position after the run of digits that starts at i
SkipDigits(s, i) ==
    IF i <= Len(s) /\ s[i] = "1" THEN SkipDigits(s, i + 1) ELSE i

RECURSIVE ParseValue(_, _), ParseElements(_, _)
\* the position after the value that starts at i, or 0 if there is none
ParseValue(s, i) ==
    IF i > Len(s) THEN 0
    ELSE IF s[i] = "1" THEN SkipDigits(s, i)
    ELSE IF s[i] = "["
         THEN IF i + 1 <= Len(s) /\ s[i + 1] = "]" THEN i + 2
              ELSE ParseElements(s, i + 1)
    ELSE 0
\* the position after `value (, value)* ]` that starts at i, or 0
ParseElements(s, i) ==
    LET j == ParseValue(s, i)
    IN  IF j = 0 \/ j > Len(s) THEN 0
        ELSE IF s[j] = "]" THEN j + 1
        ELSE IF s[j] = "," THEN ParseElements(s, j + 1)
        ELSE 0

\* JSON.parse(s) returns (TRUE) or throws a SyntaxError (FALSE)
JsonParses(s) == ParseValue(s, 1) = Len(s) + 1

\* a JavaScript string or undefined used as a condition: if (pdfParams)
Truthy(o) == o.present /\ Len(o.str) > 0


----------------------------------------------------------------------------
(* callApi *)

\* what the upstream API does with one request: `net` is whether fetch()
\* resolved, `parsable` whether the body is JSON; a JSON body has the fields
\* of PdfSuccessResponse, PdfQueuedResponse and PdfStatusResponse
UpstreamResponses ==
    [net : BOOLEAN, status : Statuses, parsable : BOOLEAN, text : ErrorTexts,
     renderStatus : RenderStatuses, requestId : RequestIds, signedUrl : Urls]

\* response.ok of fetch: the status is in 200..299
ResponseOk(status) == status >= 200 /\ status <= 299

\* a callApi that lets a 404 through to response.json()
CallApi_Lenient(r) ==
    IF ~r.net THEN Throw(NetworkError)
    ELSE IF ~ResponseOk(r.status) /\ r.status # 202 /\ r.status # 404
         THEN Throw(ApiError(r.status, r.text))
    ELSE IF ~r.parsable THEN Throw(BodyError)
    ELSE Return([status |-> r.status, data |-> r])

\* callApi: {status, data} of the response, or a thrown error
CallApi(r) ==
    IF ~r.net THEN Throw(NetworkError)
    ELSE IF ~ResponseOk(r.status) /\ r.status # 202
         THEN Throw(ApiError(r.status, r.text))
    ELSE IF ~r.parsable THEN Throw(BodyError)
    ELSE Return([status |-> r.status, data |-> r])

\* what callApi reads of a response: whether there is one, its status, the
\* body text (read on the error path only) and whether the body was JSON
NoAnswer == [net |-> FALSE, status |-> 0, text |-> "", json |-> FALSE]
Answer(r) ==
    IF ~r.net THEN NoAnswer
    ELSE IF ~ResponseOk(r.status) /\ r.status # 202
    THEN [net |-> TRUE, status |-> r.status, text |-> r.text, json |-> FALSE]
    ELSE [net |-> TRUE, status |-> r.status, text |-> "", json |-> r.parsable]

----------------------------------------------------------------------------
(* pollForPdfCompletion *)

\* default of the parameter maxAttempts
maxAttempts == 20
\* default of the parameter initialDelayMs
initialDelayMs == 2000
\* the cap of the back-off
MaxDelayMs == 10000

\* the back-off without its cap
NextDelay_NoCap(d) == (d * 3) \div 2

\* a back-off that doubles the delay
NextDelay_Double(d) == Min(d * 2, MaxDelayMs)

\* delay = Math.min(delay * 1.5, 10000); every delay reached from 2000 is a
\* whole number of milliseconds
NextDelay(d) == Min((d * 3) \div 2, MaxDelayMs)

\* a loop that runs one attempt more
ForCondition_OneMore(a) == a <= maxAttempts + 1

\* the loop condition: attempt <= maxAttempts
ForCondition(a) == a <= maxAttempts

\* data.renderStatus === "SUCCESS"
IsSuccess(data) == data.renderStatus = "SUCCESS"

\* a tracker that takes FAILED for one more pending answer
IsFailed_Never(data) == FALSE

\* data.renderStatus === "FAILED"
IsFailed(data) == data.renderStatus = "FAILED"

\* a loop body that takes a failed status query for one more pending answer
PollOutcome_Retry(c, rid) ==
    IF c.thrown THEN [step |-> "continue", out |-> Return(NoAnswer)]
    ELSE IF IsSuccess(c.val.data) THEN [step |-> "end", out |-> Return(c.val.data)]
    ELSE IF IsFailed(c.val.data)
         THEN [step |-> "end", out |-> Throw(RenderFailedError(rid))]
    ELSE [step |-> "continue", out |-> Return(c.val.data)]

\* one pass of the loop body after the wait, given the outcome c of callApi:
\* the tracker returns the data, throws, or goes on ("continue")
PollOutcome(c, rid) ==
    IF c.thrown THEN [step |-> "end", out |-> Throw(c.err)]
    ELSE IF IsSuccess(c.val.data) THEN [step |-> "end", out |-> Return(c.val.data)]
    ELSE IF IsFailed(c.val.data)
         THEN [step |-> "end", out |-> Throw(RenderFailedError(rid))]
    ELSE [step |-> "continue", out |-> Return(c.val.data)]


----------------------------------------------------------------------------
(* The tool handlers *)

\* the texts of the unflagged results
JsonResult == [NoResult EXCEPT !.kind = "JSON.stringify(data)"]
ReadyResult(data) ==
    [NoResult EXCEPT !.kind = "PDF Ready!", !.url = data.signedUrl]
InProgressResult(rid) ==
    [NoResult EXCEPT !.kind = "PDF generation is still in progress", !.requestId = rid]
GeneratedResult(ft, data) ==
    [NoResult EXCEPT !.kind = "Generated Successfully!", !.fileType = ft,
                     !.url = data.signedUrl]
GeneratedAsyncResult(ft, data) ==
    [NoResult EXCEPT !.kind = "Generated Successfully (async)!", !.fileType = ft,
                     !.url = data.signedUrl]
QueuedResult(data) ==
    [NoResult EXCEPT !.kind = "PDF generation queued", !.requestId = data.requestId]
\* the flagged result of check_pdf_status for a failed render
StatusFailedResult(rid) ==
    [NoResult EXCEPT !.isError = TRUE, !.kind = "PDF generation failed",
                     !.requestId = rid]

\* a handler that ignores the caller's waitForCompletion
WaitDefault_Ignored(o) == TRUE

\* the parameter default: waitForCompletion = true
WaitDefault(o) == IF o = "undefined" THEN TRUE ELSE o = "true"

\* a handler that takes every 2xx status for the immediate success
StatusBranch_Any2xx(status) ==
    IF status = 202 THEN "queued" ELSE "success"

\* the branches on the status of the submit call
StatusBranch(status) ==
    IF status = 200 THEN "success"
    ELSE IF status = 202 THEN "queued"
    ELSE "unexpected"

\* the JSON-string parameters of html_to_pdf that were supplied malformed
MalformedHtml(pdfParams, metadata) ==
    {m \in {[param |-> "pdfParams", str |-> pdfParams.str]} :
        pdfParams.present /\ ~JsonParses(pdfParams.str)} \cup
    {m \in {[param |-> "metadata", str |-> metadata.str]} :
        metadata.present /\ ~JsonParses(metadata.str)}

\* html_to_pdf up to its upstream call: the payload, or the thrown error
HtmlPayload(pdfParams, metadata, convertToImage, hasCover) ==
    IF Truthy(pdfParams) /\ ~JsonParses(pdfParams.str)
    THEN Throw(InvalidJsonError("pdfParams"))
    ELSE IF Truthy(metadata) /\ ~JsonParses(metadata.str)
    THEN Throw(InvalidJsonError("metadata"))
    ELSE Return({"html"}
                \cup {k \in {"pdfParams"} : Truthy(pdfParams)}
                \cup {k \in {"metadata"} : Truthy(metadata)}
                \cup {k \in {"convertToImage"} : convertToImage # "undefined"}
                \cup {k \in {"hasCover"} : hasCover # "undefined"})

\* generate_pdf up to its upstream call
GeneratePayload(data) ==
    IF ~JsonParses(data) THEN Throw(InvalidJsonError("data"))
    ELSE Return({"templateId", "data"})

\* html_to_pdf and generate_pdf after the submit call, given its outcome c:
\* the handler ends, or goes on to pollForPdfCompletion
SubmitOutcome(c, wfc, ft) ==
    IF c.thrown THEN [step |-> "end", out |-> Throw(c.err)]
    ELSE IF StatusBranch(c.val.status) = "success"
    THEN [step |-> "end", out |-> Return(GeneratedResult(ft, c.val.data))]
    ELSE IF StatusBranch(c.val.status) = "queued"
    THEN IF ~wfc THEN [step |-> "end", out |-> Return(QueuedResult(c.val.data))]
         ELSE [step |-> "poll", out |-> Return(c.val.data)]
    ELSE [step |-> "end", out |-> Throw(UnexpectedStatusError(c.val.status))]

\* check_pdf_status after its upstream call
CheckStatusOutcome(c, rid) ==
    IF c.thrown THEN Throw(c.err)
    ELSE IF c.val.data.renderStatus = "SUCCESS" THEN Return(ReadyResult(c.val.data))
    ELSE IF c.val.data.renderStatus = "ONGOING" THEN Return(InProgressResult(rid))
    ELSE Return(StatusFailedResult(rid))

\* list_templates and get_template_variables after their upstream call
ForwardOutcome(c) ==
    IF c.thrown THEN Throw(c.err) ELSE Return(JsonResult)


----------------------------------------------------------------------------
(* The state after construction *)

ToolInit ==
    /\ pc = "idle"
    /\ tool = "none"
    /\ waitArg = "undefined"
    /\ waitForCompletion = TRUE
    /\ fileType = "PDF"
    /\ payload = {}
    /\ requestId = ""
    /\ attempt = 0
    /\ delay = 0
    /\ calls = 0
    /\ statusCalls = 0
    /\ waits = 0
    /\ totalWait = 0
    /\ nOngoing = 0
    /\ submitStatus = 0
    /\ submitReturned = FALSE
    /\ lastStatus = "none"
    /\ malformed = {}
    /\ lastAnswer = NoAnswer
    /\ answers = 0
    /\ caller = 0
    /\ ended = "none"
    /\ result = NoResult

----------------------------------------------------------------------------
(* One tool invocation *)

pollVars == <<requestId, attempt, delay, waits, totalWait, nOngoing, lastStatus>>
inputVars == <<tool, waitArg, waitForCompletion, fileType, malformed, caller>>
answerVars == <<lastAnswer, answers>>

\* the handler returns (or an error leaves it)
Finish(t, c) ==
    /\ pc' = "done"
    /\ ended' = HandlerEnd(t, c).ended
    /\ result' = HandlerEnd(t, c).result

\* the handler issues its first upstream call and awaits it
AwaitFirstCall(t, isStatus) ==
    /\ pc' = "submit"
    /\ calls' = calls + 1
    /\ statusCalls' = IF isStatus THEN statusCalls + 1 ELSE statusCalls
    /\ UNCHANGED <<ended, result>>

\* an upstream call is answered with r
Answered(r) ==
    /\ lastAnswer' = Answer(r)
    /\ answers' = answers + 1

\* the first upstream call answers with r
FirstAnswer(r) ==
    /\ submitStatus' = IF r.net THEN r.status ELSE 0
    /\ submitReturned' = ~CallApi(r).thrown
    /\ Answered(r)

list_templates ==
    /\ pc = "idle"
    /\ tool' = "list_templates"
    /\ AwaitFirstCall("list_templates", FALSE)
    /\ payload' = {}
    /\ UNCHANGED <<waitArg, waitForCompletion, fileType, malformed, submitStatus,
                   submitReturned, pollVars, answerVars, caller, regVars, trackers>>

get_template_variables ==
    /\ pc = "idle"
    /\ tool' = "get_template_variables"
    /\ AwaitFirstCall("get_template_variables", FALSE)
    /\ payload' = {}
    /\ UNCHANGED <<waitArg, waitForCompletion, fileType, malformed, submitStatus,
                   submitReturned, pollVars, answerVars, caller, regVars, trackers>>

\* both forwarding tools after their upstream call
forward_response ==
    /\ pc = "submit"
    /\ tool \in {"list_templates", "get_template_variables"}
    /\ \E r \in UpstreamResponses :
          /\ FirstAnswer(r)
          /\ Finish(tool, ForwardOutcome(CallApi(r)))
    /\ UNCHANGED <<inputVars, payload, calls, statusCalls, pollVars, regVars, trackers>>

check_pdf_status ==
    /\ pc = "idle"
    /\ tool' = "check_pdf_status"
    /\ \E rid \in RequestIds : requestId' = rid
    /\ AwaitFirstCall("check_pdf_status", TRUE)
    /\ payload' = {}
    /\ UNCHANGED <<waitArg, waitForCompletion, fileType, malformed, submitStatus,
                   submitReturned, attempt, delay, waits, totalWait, nOngoing,
                   lastStatus, answerVars, caller, regVars, trackers>>

check_pdf_status_response ==
    /\ pc = "submit"
    /\ tool = "check_pdf_status"
    /\ \E r \in UpstreamResponses :
          /\ FirstAnswer(r)
          /\ Finish(tool, CheckStatusOutcome(CallApi(r), requestId))
    /\ UNCHANGED <<inputVars, payload, calls, statusCalls, pollVars, regVars, trackers>>

html_to_pdf ==
    /\ pc = "idle"
    /\ tool' = "html_to_pdf"
    /\ \E pdfParams \in OptStrings, metadata \in OptStrings,
          convertToImage \in OptBools, hasCover \in OptBools, wfc \in OptBools :
          LET p == HtmlPayload(pdfParams, metadata, convertToImage, hasCover)
          IN  /\ waitArg' = wfc
              /\ waitForCompletion' = WaitDefault(wfc)
              /\ fileType' = IF convertToImage = "true" THEN "PNG" ELSE "PDF"
              /\ malformed' = MalformedHtml(pdfParams, metadata)
              /\ IF p.thrown
                 THEN /\ Finish("html_to_pdf", Throw(p.err))
                      /\ payload' = {}
                      /\ UNCHANGED <<calls, statusCalls>>
                 ELSE /\ AwaitFirstCall("html_to_pdf", FALSE)
                      /\ payload' = p.val
    /\ UNCHANGED <<submitStatus, submitReturned, pollVars, answerVars, caller, regVars, trackers>>

\* the generate_pdf handler up to its upstream call
GeneratePdfCall ==
    /\ pc = "idle"
    /\ tool' = "generate_pdf"
    /\ \E data \in Strings, wfc \in OptBools :
          LET p == GeneratePayload(data)
          IN  /\ waitArg' = wfc
              /\ waitForCompletion' = WaitDefault(wfc)
              /\ fileType' = "PDF"
              /\ malformed' = {m \in {[param |-> "data", str |-> data]} : ~JsonParses(data)}
              /\ IF p.thrown
                 THEN /\ Finish("generate_pdf", Throw(p.err))
                      /\ payload' = {}
                      /\ UNCHANGED <<calls, statusCalls>>
                 ELSE /\ AwaitFirstCall("generate_pdf", FALSE)
                      /\ payload' = p.val
    /\ UNCHANGED <<submitStatus, submitReturned, pollVars, answerVars>>

generate_pdf ==
    /\ GeneratePdfCall
    /\ UNCHANGED <<caller, regVars, trackers>>

\* html_to_pdf and generate_pdf after the submit call; on a 202 with
\* waitForCompletion the handler enters pollForPdfCompletion: delay is
\* initialDelayMs, attempt is 1 and the first wait is started
submit_response ==
    /\ pc = "submit"
    /\ tool \in {"html_to_pdf", "generate_pdf"}
    /\ \E r \in UpstreamResponses :
          LET o == SubmitOutcome(CallApi(r), waitForCompletion, fileType)
          IN  /\ FirstAnswer(r)
              /\ requestId' = IF ~CallApi(r).thrown /\ r.status = 202
                              THEN r.requestId ELSE requestId
              /\ IF o.step = "end"
                 THEN /\ Finish(tool, o.out)
                      /\ UNCHANGED <<attempt, delay>>
                 ELSE /\ attempt' = 1
                      /\ delay' = initialDelayMs
                      /\ IF ForCondition(1)
                         THEN pc' = "wait" /\ UNCHANGED <<ended, result>>
                         ELSE Finish(tool, Throw(TimedOutError(maxAttempts, r.requestId)))
    /\ payload' = {}
    /\ UNCHANGED <<inputVars, calls, statusCalls, waits, totalWait, nOngoing,
                   lastStatus, regVars, trackers>>

\* a tracker that issues its status query without having waited
poll_wait_NoWait ==
    /\ pc = "wait"
    /\ calls' = calls + 1
    /\ statusCalls' = statusCalls + 1
    /\ pc' = "query"
    /\ UNCHANGED <<inputVars, payload, requestId, attempt, delay, nOngoing, waits,
                   totalWait, lastStatus, submitStatus, submitReturned, answerVars,
                   ended, result, regVars, trackers>>

\* a tracker that goes on only while the channel of its caller is open
poll_wait_Cancellable ==
    /\ pc = "wait"
    /\ caller # 0 => ~chans[caller].closed
    /\ waits' = waits + 1
    /\ totalWait' = totalWait + delay
    /\ calls' = calls + 1
    /\ statusCalls' = statusCalls + 1
    /\ pc' = "query"
    /\ UNCHANGED <<inputVars, payload, requestId, attempt, delay, nOngoing,
                   lastStatus, submitStatus, submitReturned, answerVars, ended,
                   result, regVars, trackers>>

\* the timer of `await new Promise(resolve => setTimeout(resolve, delay))`
\* fires and the tracker issues its status query
poll_wait ==
    /\ pc = "wait"
    /\ waits' = waits + 1
    /\ totalWait' = totalWait + delay
    /\ calls' = calls + 1
    /\ statusCalls' = statusCalls + 1
    /\ pc' = "query"
    /\ UNCHANGED <<inputVars, payload, requestId, attempt, delay, nOngoing,
                   lastStatus, submitStatus, submitReturned, answerVars, ended,
                   result, regVars, trackers>>

\* the status query answers: the rest of the loop body, the increment and
\* the loop condition, and the throw after the loop
poll_response ==
    /\ pc = "query"
    /\ \E r \in UpstreamResponses :
          LET c == CallApi(r)
              o == PollOutcome(c, requestId)
          IN  /\ Answered(r)
              /\ lastStatus' = IF c.thrown THEN lastStatus ELSE r.renderStatus
              /\ nOngoing' = IF ~c.thrown /\ r.renderStatus = "ONGOING"
                             THEN nOngoing + 1 ELSE nOngoing
              /\ IF o.step = "end"
                 THEN /\ IF o.out.thrown
                         THEN Finish(tool, o.out)
                         ELSE Finish(tool, Return(GeneratedAsyncResult(fileType, o.out.val)))
                      /\ UNCHANGED <<attempt, delay>>
                 ELSE /\ delay' = NextDelay(delay)
                      /\ attempt' = attempt + 1
                      /\ IF ForCondition(attempt + 1)
                         THEN pc' = "wait" /\ UNCHANGED <<ended, result>>
                         ELSE Finish(tool, Throw(TimedOutError(maxAttempts, requestId)))
    /\ UNCHANGED <<inputVars, payload, requestId, calls, statusCalls, waits,
                   totalWait, submitStatus, submitReturned, regVars, trackers>>


----------------------------------------------------------------------------
(* The session registry *)

\* the values of the mcp-session-id header: none (undefined), the empty
\* string, the name of a property every object inherits ("constructor"),
\* and the UUIDs, the n-th issued and one never issued
Absent == [kind |-> "absent", n |-> 0]
EmptyId == [kind |-> "empty", n |-> 0]
ProtoId == [kind |-> "proto", n |-> 0]
Uuid(n) == [kind |-> "uuid", n |-> n]
SessionIds == {Absent, EmptyId, ProtoId} \cup {Uuid(n) : n \in 1..(MaxSessions + 1)}

\* a session id used as a condition: undefined and "" are falsy
SidTruthy(sid) == sid.kind \notin {"absent", "empty"}

\* transports[sessionId] on the plain object `transports`: an own property
\* (a transport), a property inherited from Object.prototype (not a
\* transport, but truthy), or undefined
Lookup(reg, sid) ==
    IF sid \in DOMAIN reg THEN [found |-> "transport", chan |-> reg[sid]]
    ELSE IF sid.kind = "proto" THEN [found |-> "inherited", chan |-> 0]
    ELSE [found |-> "undefined", chan |-> 0]

\* a generator that hands out one id again and again
SessionIdGenerator_Fixed(count) == Uuid(1)

\* sessionIdGenerator: () => randomUUID(); the count-th call of randomUUID
\* yields a UUID no earlier call has yielded
SessionIdGenerator(count) == Uuid(count + 1)

\* onsessioninitialized: (id) => { transports[id] = transport }
OnSessionInitialized(reg, id, c) ==
    [x \in (DOMAIN reg) \cup {id} |-> IF x = id THEN c ELSE reg[x]]

\* a close handler that empties the registry
OnClose_All(reg, ch) == << >>

\* a close handler that leaves the entry in place
OnClose_Keep(reg, ch) == reg

\* transport.onclose: if (transport.sessionId) delete transports[transport.sessionId]
OnClose(reg, ch) ==
    IF SidTruthy(ch.sessionId)
    THEN [x \in (DOMAIN reg) \ {ch.sessionId} |-> reg[x]]
    ELSE reg

\* the branches of app.post("/mcp")
PostRoute(reg, sid, init) ==
    IF SidTruthy(sid) /\ Lookup(reg, sid).found # "undefined" THEN "reuse"
    ELSE IF ~SidTruthy(sid) /\ init THEN "new"
    ELSE "invalid"

\* the branches of app.get("/mcp") and app.delete("/mcp")
GetRoute(reg, sid) ==
    IF Lookup(reg, sid).found # "undefined" THEN "reuse" ELSE "invalid"

NoResp == [kind |-> "none", chan |-> 0, code |-> 0, message |-> ""]
\* res.status(400).json({jsonrpc: "2.0", error: {code: -32000, message: "Invalid session"}, id: null})
InvalidSession ==
    [kind |-> "error", chan |-> 0, code |-> -32000, message |-> "Invalid session"]
\* transport.handleRequest(req, res, ...) on the transport of channel c
Routed(c) == [kind |-> "routed", chan |-> c, code |-> 0, message |-> ""]
\* a new transport and server were created for channel c
Created(c) == [kind |-> "created", chan |-> c, code |-> 0, message |-> ""]
\* transport.handleRequest is not a function: the handler's promise rejects
\* and nothing is written to `res` by the handler
Rejected == [kind |-> "TypeError", chan |-> 0, code |-> 0, message |-> ""]

\* the answer of a handler that reuses what the lookup found
Reuse(reg, sid) ==
    IF Lookup(reg, sid).found = "transport" THEN Routed(Lookup(reg, sid).chan)
    ELSE Rejected

NewChannel == [sessionId |-> Absent, state |-> "connected", closed |-> FALSE]

Event(ev, sid, init, c) == [ev |-> ev, sid |-> sid, init |-> init, chan |-> c]

RegInit ==
    /\ transports = << >>
    /\ chans = << >>
    /\ uuidCount = 0
    /\ last = Event("none", Absent, FALSE, 0)
    /\ resp = NoResp

\* app.post("/mcp"), up to `await server.connect(transport)` for a new
\* session and up to transport.handleRequest otherwise
PostMcp(sid, init) ==
    /\ PostRoute(transports, sid, init) = "new" => Len(chans) < MaxSessions
    /\ last' = Event("POST", sid, init, 0)
    /\ IF PostRoute(transports, sid, init) = "reuse"
       THEN resp' = Reuse(transports, sid) /\ UNCHANGED chans
       ELSE IF PostRoute(transports, sid, init) = "new"
       THEN /\ chans' = Append(chans, NewChannel)
            /\ resp' = Created(Len(chans) + 1)
       ELSE resp' = InvalidSession /\ UNCHANGED chans
    /\ UNCHANGED <<transports, uuidCount, toolVars, trackers>>

\* app.get("/mcp")
GetMcp(sid) ==
    /\ last' = Event("GET", sid, FALSE, 0)
    /\ IF GetRoute(transports, sid) = "reuse"
       THEN resp' = Reuse(transports, sid)
       ELSE resp' = InvalidSession
    /\ UNCHANGED <<transports, chans, uuidCount, toolVars, trackers>>

\* app.delete("/mcp")
DeleteMcp(sid) ==
    /\ last' = Event("DELETE", sid, FALSE, 0)
    /\ IF GetRoute(transports, sid) = "reuse"
       THEN resp' = Reuse(transports, sid)
       ELSE resp' = InvalidSession
    /\ UNCHANGED <<transports, chans, uuidCount, toolVars, trackers>>

\* a handshake that registers the channel before it is accepted
Handshake_RegisterFirst(c, accepted) ==
    /\ c \in DOMAIN chans
    /\ chans[c].state = "connected"
    /\ chans' = [chans EXCEPT ![c].sessionId = SessionIdGenerator(uuidCount),
                              ![c].state = IF accepted THEN "initialized" ELSE "refused"]
    /\ uuidCount' = uuidCount + 1
    /\ transports' = OnSessionInitialized(transports, SessionIdGenerator(uuidCount), c)
    /\ last' = Event(IF accepted THEN "accepted" ELSE "refused", Absent, TRUE, c)
    /\ UNCHANGED <<resp, toolVars, trackers>>

\* app.post("/mcp") resumes after server.connect: transport.handleRequest on
\* the new transport. The channel accepts the handshake (it draws its id
\* from sessionIdGenerator and calls onsessioninitialized) or refuses it
Handshake(c, accepted) ==
    /\ c \in DOMAIN chans
    /\ chans[c].state = "connected"
    /\ IF accepted
       THEN /\ chans' = [chans EXCEPT ![c].sessionId = SessionIdGenerator(uuidCount),
                                      ![c].state = "initialized"]
            /\ uuidCount' = uuidCount + 1
            /\ transports' = OnSessionInitialized(transports,
                                                  SessionIdGenerator(uuidCount), c)
            /\ last' = Event("accepted", Absent, TRUE, c)
       ELSE /\ chans' = [chans EXCEPT ![c].state = "refused"]
            /\ last' = Event("refused", Absent, TRUE, c)
            /\ UNCHANGED <<transports, uuidCount>>
    /\ UNCHANGED <<resp, toolVars, trackers>>

\* the channel of an established session closes (a DELETE it handled, or
\* the server side closing it) and calls transport.onclose
ChannelClose(c) ==
    /\ c \in DOMAIN chans
    /\ chans[c].state = "initialized"
    /\ ~chans[c].closed
    /\ chans' = [chans EXCEPT ![c].closed = TRUE]
    /\ transports' = OnClose(transports, chans[c])
    /\ last' = Event("close", Absent, FALSE, c)
    /\ UNCHANGED <<uuidCount, resp, toolVars, trackers>>

----------------------------------------------------------------------------
(* Specifications *)

Init == ToolInit /\ RegInit /\ trackers = << >>

Next ==
    \/ list_templates
    \/ get_template_variables
    \/ forward_response
    \/ check_pdf_status
    \/ check_pdf_status_response
    \/ html_to_pdf
    \/ generate_pdf
    \/ submit_response
    \/ poll_wait
    \/ poll_response

Spec == Init /\ [][Next]_vars

RegNext ==
    \/ \E sid \in SessionIds, init \in BOOLEAN : PostMcp(sid, init)
    \/ \E sid \in SessionIds : GetMcp(sid)
    \/ \E sid \in SessionIds : DeleteMcp(sid)
    \/ \E c \in 1..MaxSessions, accepted \in BOOLEAN : Handshake(c, accepted)
    \/ \E c \in 1..MaxSessions : ChannelClose(c)

RegSpec == Init /\ [][RegNext]_vars


\* a POST that carries the id of a registered session and a tools/call of
\* generate_pdf: it is routed to the channel, whose server runs the handler
ToolsCall(sid) ==
    /\ PostRoute(transports, sid, FALSE) = "reuse"
    /\ Lookup(transports, sid).found = "transport"
    /\ last' = Event("POST", sid, FALSE, 0)
    /\ resp' = Reuse(transports, sid)
    /\ caller' = Lookup(transports, sid).chan
    /\ GeneratePdfCall
    /\ UNCHANGED <<transports, chans, uuidCount, trackers>>

\* sessions are opened and closed while a tool invocation of one of them
\* runs; every wait and every upstream call eventually returns
SessionNext ==
    \/ (Len(chans) < MaxCallerSessions /\ PostMcp(Absent, TRUE))
    \/ \E c \in 1..MaxCallerSessions, accepted \in BOOLEAN : Handshake(c, accepted)
    \/ \E c \in 1..MaxCallerSessions : ChannelClose(c)
    \/ \E sid \in SessionIds : ToolsCall(sid)
    \/ submit_response
    \/ poll_wait
    \/ poll_response

SessionSpec ==
    /\ Init
    /\ [][SessionNext]_vars
    /\ WF_vars(submit_response)
    /\ WF_vars(poll_wait)
    /\ WF_vars(poll_response)

----------------------------------------------------------------------------
(* Concurrent invocations *)

\* what the upstream answers a status query with while several invocations
\* poll: the job is pending, done or failed, or the query is refused
StatusAnswers ==
    {r \in UpstreamResponses :
        /\ r.net /\ r.parsable /\ r.text = "" /\ r.requestId = "r1"
        /\ r.status \in {200, 500}
        /\ r.status = 500 => r.renderStatus = "ONGOING"}

\* the locals of one call of pollForPdfCompletion(requestId) as the loop is
\* entered: attempt = 1, delay = initialDelayMs; `caller` is the channel the
\* invocation came through, `queries`, `delays` and `seen` record the status
\* queries issued, the delays waited and the answers read
NewTracker(c, rid) ==
    [caller |-> c, requestId |-> rid, pc |-> "wait", attempt |-> 1,
     delay |-> initialDelayMs, queries |-> 0, delays |-> << >>, seen |-> << >>,
     out |-> Return(NoAnswer)]

\* the timer fires and the status query is issued
TrackerFire(t) ==
    [t EXCEPT !.pc = "query", !.queries = @ + 1, !.delays = Append(@, t.delay)]

\* the status query answers r: the rest of the loop body, the increment,
\* the loop condition and the throw after the loop
TrackerRead(t, r) ==
    LET o == PollOutcome(CallApi(r), t.requestId)
    IN  IF o.step = "end"
        THEN [t EXCEPT !.pc = "done", !.seen = Append(@, r), !.out = o.out]
        ELSE IF ForCondition(t.attempt + 1)
        THEN [t EXCEPT !.pc = "wait", !.seen = Append(@, r), !.attempt = @ + 1,
                       !.delay = NextDelay(@)]
        ELSE [t EXCEPT !.pc = "done", !.seen = Append(@, r), !.attempt = @ + 1,
                       !.delay = NextDelay(@),
                       !.out = Throw(TimedOutError(maxAttempts, t.requestId))]

\* the requestId of a job that starts being tracked, the ids named in the
\* order the upstream issued them: the first job tracked is "r1", a later
\* one is a job already tracked or another one
JobIds(ts) == IF ts = << >> THEN {"r1"} ELSE RequestIds

\* an invocation that came through channel c, whose first call was answered
\* 202 with requestId rid, enters pollForPdfCompletion(rid)
pollForPdfCompletion(c, rid) ==
    /\ rid \in JobIds(trackers)
    /\ Len(trackers) < MaxTrackers
    /\ c \in DOMAIN chans
    /\ chans[c].state = "initialized"
    /\ trackers' = Append(trackers, NewTracker(c, rid))
    /\ UNCHANGED <<toolVars, regVars>>

\* the timer of tracker i fires
tracker_wait(i) ==
    /\ i \in DOMAIN trackers
    /\ trackers[i].pc = "wait"
    /\ trackers' = [trackers EXCEPT ![i] = TrackerFire(@)]
    /\ UNCHANGED <<toolVars, regVars>>

\* trackers whose `delay` is one variable of the module
tracker_response_SharedDelay(i) ==
    /\ i \in DOMAIN trackers
    /\ trackers[i].pc = "query"
    /\ \E r \in StatusAnswers :
          trackers' = [j \in DOMAIN trackers |->
                          IF j = i THEN TrackerRead(trackers[i], r)
                          ELSE [trackers[j] EXCEPT
                                   !.delay = TrackerRead(trackers[i], r).delay]]
    /\ UNCHANGED <<toolVars, regVars>>

\* the status query of tracker i answers
tracker_response(i) ==
    /\ i \in DOMAIN trackers
    /\ trackers[i].pc = "query"
    /\ \E r \in StatusAnswers :
          trackers' = [trackers EXCEPT ![i] = TrackerRead(@, r)]
    /\ UNCHANGED <<toolVars, regVars>>

\* sessions open and close while the invocations that came through them
\* track their jobs, their waits and queries interleaved by the event loop
TrackNext ==
    \/ (Len(chans) < MaxTrackers /\ PostMcp(Absent, TRUE))
    \/ \E c \in 1..MaxTrackers : Handshake(c, TRUE)
    \/ \E c \in 1..MaxTrackers : ChannelClose(c)
    \/ \E c \in 1..MaxTrackers, rid \in RequestIds : pollForPdfCompletion(c, rid)
    \/ \E i \in 1..MaxTrackers : tracker_wait(i)
    \/ \E i \in 1..MaxTrackers : tracker_response(i)

TrackSpec == Init /\ [][TrackNext]_vars

----------------------------------------------------------------------------
(* Properties *)

HtmlOrGenerate == tool \in {"html_to_pdf", "generate_pdf"}

\* the delay series of the specification: 2000, 3000, 4500, 6750, 10000, ...
SeriesTerm(n) ==
    IF n = 1 THEN 2000
    ELSE IF n = 2 THEN 3000
    ELSE IF n = 3 THEN 4500
    ELSE IF n = 4 THEN 6750
    ELSE 10000

RECURSIVE SeriesSum(_)
SeriesSum(n) == IF n = 0 THEN 0 ELSE SeriesSum(n - 1) + SeriesTerm(n)

\* C1: when the tracker reads SUCCESS after k ONGOING answers (k < 20), the
\* handler returns the success result, the tracker has made exactly k+1
\* status queries and k+1 waits, and the waits add up to the first k+1
\* terms of the series 2000, 3000, 4500, 6750, 10000, 10000, ...
C1_SuccessAfterOngoing ==
    lastStatus = "SUCCESS" =>
        /\ pc = "done"
        /\ ended = "returned"
        /\ ~result.isError
        /\ result.kind = "Generated Successfully (async)!"
        /\ nOngoing < 20
        /\ statusCalls = nOngoing + 1
        /\ waits = nOngoing + 1
        /\ totalWait = SeriesSum(nOngoing + 1)

C1_Witness ==
    /\ lastStatus = "SUCCESS"
    /\ nOngoing = 19
    /\ totalWait = 176250

\* C2: after 20 consecutive ONGOING answers the tracker has failed with the
\* timed-out error after exactly 20 status queries, and it never issues a
\* 21st query
C2_TimeoutAfterTwenty ==
    /\ statusCalls <= 20
    /\ nOngoing = 20 =>
          /\ pc = "done"
          /\ result.isError
          /\ result.kind = "PDF generation timed out"
          /\ result.attempts = 20
          /\ result.requestId = requestId
          /\ statusCalls = 20

C2_Witness ==
    /\ nOngoing = 20
    /\ pc = "done"
    /\ statusCalls = 20

\* C3: at the first FAILED answer the tracker fails with the render-failed
\* error: the handler is done, and no wait and no status query follows that
\* answer, whatever number of attempts is left
C3_FailedIsTerminal ==
    lastStatus = "FAILED" =>
        /\ pc = "done"
        /\ result.isError
        /\ result.kind = "PDF generation failed"
        /\ result.requestId = requestId
        /\ statusCalls = nOngoing + 1
        /\ waits = statusCalls
        /\ attempt = statusCalls

C3_Witness ==
    /\ lastStatus = "FAILED"
    /\ attempt = 3
    /\ pc = "done"

\* C4: a malformed JSON string (the empty string included) supplied as
\* pdfParams, metadata or data gives a flagged result that names the
\* parameter, and no upstream call is issued
C4_MalformedIsFlagged ==
    malformed # {} =>
        /\ pc = "done"
        /\ result.isError
        /\ result.kind = "Invalid JSON provided for parameter"
        /\ result.param \in {m.param : m \in malformed}
        /\ calls = 0

\* C7: when the submit call returns 202 and the caller passed
\* waitForCompletion = false, the tool returns an unflagged result with the
\* upstream requestId and the status endpoint is never called; these two
\* tools call the status endpoint only after a 202 with waitForCompletion
\* true or left out
C7_NoPollWhenNotWaiting ==
    /\ (HtmlOrGenerate /\ submitReturned /\ submitStatus = 202 /\ waitArg = "false") =>
          /\ pc = "done"
          /\ ~result.isError
          /\ result.kind = "PDF generation queued"
          /\ result.requestId = requestId
          /\ statusCalls = 0
          /\ waits = 0
    /\ (HtmlOrGenerate /\ (statusCalls > 0 \/ pc \in {"wait", "query"})) =>
          /\ submitReturned
          /\ submitStatus = 202
          /\ waitArg # "false"

C7_Witness ==
    /\ tool = "html_to_pdf"
    /\ submitReturned
    /\ submitStatus = 202
    /\ waitArg = "false"
    /\ result.requestId = "r1"

\* C9: no error leaves a tool handler: an invocation that has ended has
\* returned a result, unflagged or flagged with the tool's error text, and
\* an invocation that has not ended can take a step
C9_ErrorsContained ==
    /\ ended # "threw"
    /\ pc = "done" =>
          /\ ended = "returned"
          /\ result.kind # "none"
          /\ result.isError =>
                \/ result.prefix = ErrorPrefix(tool)
                \/ tool = "check_pdf_status" /\ result.kind = "PDF generation failed"
    /\ pc \notin {"idle", "done"} => (ended = "none" /\ ENABLED Next)

C9_Witness ==
    /\ pc = "done"
    /\ tool = "generate_pdf"
    /\ statusCalls = 2
    /\ result.isError
    /\ result.kind = "fetch failed"

\* C10 as stated: every submit status other than 200 and 202 gives the
\* "Unexpected response status" error naming that status
C10_Original ==
    (HtmlOrGenerate /\ pc = "done" /\ submitStatus \notin {0, 200, 202}) =>
        /\ result.isError
        /\ result.kind = "Unexpected response status"
        /\ result.status = submitStatus

\* C10 as amended: a submit status other than 200 and 202 gives a flagged
\* result; it is the "Unexpected response status" error naming the status
\* when callApi returned (a 2xx status with a JSON body), the "PDFNoodle API
\* Error" naming the status when the status is not 2xx, and the error of
\* response.json() when a 2xx body is not JSON
C10_UnexpectedStatus ==
    (HtmlOrGenerate /\ pc = "done" /\ submitStatus \notin {0, 200, 202}) =>
        /\ result.isError
        /\ statusCalls = 0
        /\ IF submitReturned
           THEN result.kind = "Unexpected response status" /\ result.status = submitStatus
           ELSE IF submitStatus >= 200 /\ submitStatus <= 299
           THEN result.kind = "invalid response body"
           ELSE result.kind = "PDFNoodle API Error" /\ result.status = submitStatus

C10_Witness ==
    /\ tool = "generate_pdf"
    /\ pc = "done"
    /\ submitReturned
    /\ submitStatus = 201
    /\ result.kind = "Unexpected response status"


\* C5: a POST with an initialization payload and no session id always takes
\* the new-session branch, whatever the registry holds: it gets a new
\* channel and never the protocol error; and the id a channel is given when
\* its handshake is accepted is a UUID that differs from the id of every
\* other channel, open or closed, and is registered for that channel
C5_FreshSession ==
    /\ (last.ev = "POST" /\ ~SidTruthy(last.sid) /\ last.init) =>
          /\ resp.kind = "created"
          /\ resp.chan = Len(chans)
          /\ chans[resp.chan].state = "connected"
          /\ chans[resp.chan].sessionId = Absent
    /\ \A c \in DOMAIN chans :
          chans[c].state = "initialized" =>
              /\ chans[c].sessionId.kind = "uuid"
              /\ \A d \in DOMAIN chans :
                    (d # c /\ chans[d].state = "initialized") =>
                        chans[d].sessionId # chans[c].sessionId
    /\ last.ev = "accepted" =>
          /\ chans[last.chan].state = "initialized"
          /\ chans[last.chan].sessionId \in DOMAIN transports
          /\ transports[chans[last.chan].sessionId] = last.chan

C5_Witness ==
    /\ last.ev = "accepted"
    /\ last.chan = 3
    /\ chans[1].closed
    /\ chans[2].state = "initialized"
    /\ ~chans[2].closed

\* C6: a POST, GET or DELETE whose session id is not in the registry, and a
\* request without session id that is not an initialization, is answered
\* with the protocol error -32000 "Invalid session"
C6_UnknownSessionRejected ==
    (/\ last.ev \in {"POST", "GET", "DELETE"}
     /\ last.sid \notin DOMAIN transports
     /\ ~(last.ev = "POST" /\ ~SidTruthy(last.sid) /\ last.init)) =>
        /\ resp.kind = "error"
        /\ resp.code = -32000
        /\ resp.message = "Invalid session"

C11_HardApiError ==
    (lastAnswer.net /\ (lastAnswer.status < 200 \/ lastAnswer.status > 299)) =>
        /\ pc = "done"
        /\ ended = "returned"
        /\ result.isError
        /\ result.prefix = ErrorPrefix(tool)
        /\ result.kind = "PDFNoodle API Error"
        /\ result.status = lastAnswer.status
        /\ result.text = lastAnswer.text
        /\ result.url = ""
        /\ result.requestId = ""
        /\ calls = answers

C11_Witness ==
    /\ tool = "html_to_pdf"
    /\ statusCalls = 3
    /\ lastAnswer.status = 500
    /\ lastAnswer.text = "quota exceeded"
    /\ result.text = "quota exceeded"

\* the tracker was entered: the submit call returned 202 and the handler waits
Tracked == HtmlOrGenerate /\ submitReturned /\ submitStatus = 202 /\ waitForCompletion

\* C12: after a 202 with waitForCompletion true, the result of an ended
\* invocation is unflagged exactly when the tracker read SUCCESS; after
\* FAILED it is flagged and names the job id; after the 20th ONGOING it is
\* flagged and names the job id and the attempt count 20
C12_TrackerResult ==
    (Tracked /\ pc = "done") =>
        /\ ~result.isError <=> lastStatus = "SUCCESS"
        /\ lastStatus = "FAILED" =>
              /\ result.isError
              /\ result.kind = "PDF generation failed"
              /\ result.requestId = requestId
              /\ requestId \in RequestIds
        /\ nOngoing = 20 =>
              /\ result.isError
              /\ result.kind = "PDF generation timed out"
              /\ result.requestId = requestId
              /\ requestId \in RequestIds
              /\ result.attempts = 20

C12_Witness ==
    /\ Tracked
    /\ tool = "html_to_pdf"
    /\ pc = "done"
    /\ nOngoing = 20
    /\ result.attempts = 20
    /\ result.requestId = "r2"

\* C13: in the tracker every status query comes right after one wait: the
\* numbers of waits and of queries are equal whenever the tracker is
\* waiting, querying or has ended, the query of attempt n is the n-th, the
\* first query is issued only after 2000 ms have been waited, and no wait
\* follows the last query
C13_WaitThenQuery ==
    HtmlOrGenerate =>
        /\ waits = statusCalls
        /\ statusCalls >= 1 => totalWait >= 2000
        /\ pc = "wait" => (statusCalls = attempt - 1 /\ answers = calls)
        /\ pc = "query" => (statusCalls = attempt /\ answers = calls - 1)
        /\ (pc = "done" /\ statusCalls >= 1) => (answers = calls /\ waits = answers - 1)

C13_Witness ==
    /\ HtmlOrGenerate
    /\ pc = "done"
    /\ lastStatus = "ONGOING"
    /\ waits = 20
    /\ statusCalls = 20


\* C14: once the tracker has started, its delay is between 2000 and 10000 ms
\* and is the term of the series 2000, 3000, 4500, 6750, 10000, ... after
\* the ONGOING answers read so far; it never decreases, it changes only in
\* the step that reads an ONGOING answer, to min(delay * 1.5, 10000), and
\* from 10000 it stays 10000
C14_DelaySchedule ==
    /\ [](attempt >= 1 =>
            /\ delay >= 2000
            /\ delay <= 10000
            /\ delay = SeriesTerm(nOngoing + 1))
    /\ [][attempt >= 1 =>
            /\ delay' >= delay
            /\ delay' # delay => nOngoing' = nOngoing + 1
            /\ nOngoing' = nOngoing + 1 =>
                  delay' = IF 2 * 10000 <= 3 * delay THEN 10000 ELSE (3 * delay) \div 2
            /\ delay = 10000 => delay' = 10000
            /\ waits' = waits + 1 => totalWait' = totalWait + delay]_vars

C14_Witness ==
    /\ pc = "wait"
    /\ nOngoing = 7
    /\ delay = 10000
    /\ totalWait = 16250 + 3 * 10000


\* C15 as stated: the waits of a run that uses up all 20 attempts add up to
\* at least 180000 ms and at most 240000 ms
C15_Original ==
    (pc = "done" /\ result.kind = "PDF generation timed out") =>
        (totalWait >= 180000 /\ totalWait <= 240000)

\* C15 as amended: the waits of a run that uses up all 20 attempts add up to
\* exactly 176250 ms (2000 + 3000 + 4500 + 6750 + 16 * 10000), which is below
\* 3 minutes, and no run waits longer
C15_TotalBackoff ==
    /\ totalWait <= 176250
    /\ (pc = "done" /\ result.kind = "PDF generation timed out") =>
          /\ waits = 20
          /\ totalWait = 176250
          /\ totalWait < 180000

C15_Witness ==
    /\ pc = "done"
    /\ tool = "generate_pdf"
    /\ result.kind = "PDF generation timed out"
    /\ totalWait = 176250

\* the last call of the tracker has been answered, and not with a JSON body
\* of a 2xx response: fetch failed, the status was an error, or the body
\* was not JSON
StatusQueryFailed ==
    /\ HtmlOrGenerate
    /\ statusCalls >= 1
    /\ answers = calls
    /\ ~lastAnswer.json

\* the failed status query ends the tracker and the invocation
C16_NoRetry ==
    StatusQueryFailed =>
        /\ pc = "done"
        /\ result.isError
        /\ result.kind \in {"fetch failed", "PDFNoodle API Error", "invalid response body"}
        /\ waits = statusCalls
        /\ attempt = statusCalls

\* C16 as stated: a failed status query is not retried, and every upstream
\* call issued after another one follows an ONGOING status answer
C16_Original ==
    /\ C16_NoRetry
    /\ calls >= 2 => nOngoing >= calls - 1

\* C16 as amended: a failed status query is not retried; an upstream call
\* is issued after another one only by the tracker: its first query follows
\* the 202 answer of the submit call (with waitForCompletion true), each
\* later one follows an ONGOING status answer with attempts remaining
C16_CallsAfterCalls ==
    /\ C16_NoRetry
    /\ calls >= 2 =>
          /\ Tracked
          /\ calls = statusCalls + 1
          /\ nOngoing >= calls - 2
          /\ pc = "query" => (nOngoing = calls - 2 /\ nOngoing <= 19)
          /\ (pc = "query" /\ calls >= 3) => lastStatus = "ONGOING"

C16_Witness ==
    /\ StatusQueryFailed
    /\ pc = "done"
    /\ statusCalls = 4
    /\ ~lastAnswer.net
    /\ result.kind = "fetch failed"


IsRequest == last.ev \in {"POST", "GET", "DELETE"}

\* C17: a session is created only by a POST that is an initialization and
\* carries no session id; an initialization that carries a session id is
\* routed to the channel registered under it, or rejected with the protocol
\* error when the id is not registered; GET and DELETE never create one
C17_CreateOnlyOnHandshake ==
    /\ (IsRequest /\ resp.kind = "created") =>
          (last.ev = "POST" /\ last.init /\ ~SidTruthy(last.sid))
    /\ (last.ev = "POST" /\ last.init /\ SidTruthy(last.sid)) =>
          IF last.sid \in DOMAIN transports
          THEN resp = Routed(transports[last.sid])
          ELSE resp = InvalidSession

\* C18: a channel whose handshake has not been accepted (pending or refused)
\* has no session id and no entry in the registry, so no request is routed
\* to it; every entry belongs to a channel whose handshake was accepted
C18_RegisteredOnAccept ==
    /\ \A c \in DOMAIN chans :
          chans[c].state \in {"connected", "refused"} =>
              /\ chans[c].sessionId = Absent
              /\ \A id \in DOMAIN transports : transports[id] # c
    /\ \A id \in DOMAIN transports :
          /\ transports[id] \in DOMAIN chans
          /\ chans[transports[id]].state = "initialized"
    /\ Cardinality(DOMAIN transports) <= uuidCount
    /\ (IsRequest /\ resp.kind = "routed") => chans[resp.chan].state = "initialized"

C18_Witness ==
    /\ Len(chans) = 3
    /\ chans[1].state = "refused"
    /\ chans[2].state = "connected"
    /\ chans[3].state = "initialized"
    /\ last.ev = "GET"
    /\ last.sid = Uuid(2)
    /\ resp = InvalidSession

\* C19: a step changes the entry of a session id only if it is the close of
\* the channel registered under that id (which removes it) or the accepted
\* handshake of the channel that is given that id (which adds it); every
\* other entry, and every other channel, is left as it was
C19_Independence ==
    [][/\ \A id \in DOMAIN transports :
             \/ (id \in DOMAIN transports' /\ transports'[id] = transports[id])
             \/ /\ last'.ev = "close"
                /\ transports[id] = last'.chan
                /\ chans[last'.chan].sessionId = id
                /\ id \notin DOMAIN transports'
       /\ \A id \in (DOMAIN transports') \ (DOMAIN transports) :
             /\ last'.ev = "accepted"
             /\ chans'[last'.chan].sessionId = id
             /\ transports'[id] = last'.chan
       /\ \A c \in DOMAIN chans :
             \/ chans'[c] = chans[c]
             \/ (last'.ev \in {"accepted", "refused", "close"} /\ last'.chan = c)]_vars

C19_Witness ==
    /\ last.ev = "close"
    /\ last.chan = 1
    /\ Len(chans) = 3
    /\ chans[2].state = "initialized"
    /\ ~chans[2].closed
    /\ DOMAIN transports = {Uuid(2), Uuid(3)}
    /\ transports[Uuid(2)] = 2


\* the tracker is running: its timer or its status query is pending
Tracking == pc \in {"wait", "query"}

\* C20: a tracker run makes at most 20 status queries, so the invocation
\* makes at most 21 upstream calls; it ends in exactly one of success,
\* render-failed, timed-out or a failed upstream call; the close of a
\* channel leaves the invocation as it is; and, every wait and every call
\* returning, a running tracker eventually ends, also when the session of
\* its caller has closed meanwhile
C20_TrackerTerminates ==
    /\ [](/\ statusCalls <= 20
          /\ calls <= 21
          /\ (pc = "done" /\ statusCalls >= 1) =>
                \/ ~result.isError /\ result.kind = "Generated Successfully (async)!"
                \/ result.isError /\ result.kind = "PDF generation failed"
                \/ result.isError /\ result.kind = "PDF generation timed out"
                \/ result.isError /\ result.kind \in {"fetch failed", "PDFNoodle API Error",
                                                      "invalid response body"})
    /\ [][last'.ev = "close" /\ chans' # chans => UNCHANGED toolVars]_vars
    /\ Tracking ~> pc = "done"
    /\ (Tracking /\ caller # 0 /\ chans[caller].closed) ~> (pc = "done" /\ ended = "returned")

C20_Witness ==
    /\ pc = "wait"
    /\ attempt = 2
    /\ caller = 1
    /\ chans[caller].closed
    /\ caller \notin {transports[id] : id \in DOMAIN transports}

\* tracker t run alone against the first k of the answers it has read
RECURSIVE RunAlone(_, _)
RunAlone(t, k) ==
    IF k = 0 THEN NewTracker(t.caller, t.requestId)
    ELSE TrackerRead(TrackerFire(RunAlone(t, k - 1)), t.seen[k])

\* where t would be, run alone against the answers it has read so far
Alone(t) ==
    LET a == RunAlone(t, Len(t.seen))
    IN  IF t.pc = "query" /\ a.pc = "wait" THEN TrackerFire(a) ELSE a

\* C21: however the waits and status queries of concurrent invocations are
\* interleaved, in one session or several and also for one job id, every
\* tracker's number of queries, delays waited, attempt counter, delay and
\* outcome are those of the same tracker run alone against the answers it
\* read; a tracker's step changes that tracker only and leaves the session
\* registry as it is, a step of the registry leaves every tracker as it is,
\* and a tracker goes on whatever the registry holds
C21_TrackersIndependent ==
    /\ [](\A i \in DOMAIN trackers :
             /\ trackers[i] = Alone(trackers[i])
             /\ trackers[i].queries <= maxAttempts
             /\ trackers[i].pc = "wait" => ENABLED tracker_wait(i)
             /\ trackers[i].pc = "query" => ENABLED tracker_response(i))
    /\ [][/\ trackers' # trackers => regVars' = regVars
          /\ \A i \in DOMAIN trackers :
                /\ i \in DOMAIN trackers'
                /\ trackers'[i] # trackers[i] =>
                      \A j \in DOMAIN trackers \ {i} : trackers'[j] = trackers[j]]_vars

\* two invocations of different sessions track the same job; the session of
\* the first has closed; the first has issued its third query while the
\* second ended on SUCCESS at its second
C21_Witness ==
    /\ Len(trackers) = 2
    /\ trackers[1].requestId = trackers[2].requestId
    /\ trackers[1].caller # trackers[2].caller
    /\ chans[trackers[1].caller].closed
    /\ trackers[1].pc = "query"
    /\ trackers[1].delays = <<2000, 3000, 4500>>
    /\ trackers[2].pc = "done"
    /\ trackers[2].queries = 2
    /\ ~trackers[2].out.thrown

=============================================================================
